---- MODULE Spec2Model ----
(***************************************************************************)
(* SNOMED ValueSet to ECL Converter (Enterprise Architect JScript).        *)
(*                                                                         *)
(* The module models the converter script: the value-set recognizers of    *)
(* extractSnomedEclFromValueSet, the canonicalizer cleanAndStandardizeEcl, *)
(* the guard convertSingleDataElement with its tagged-value helpers, and   *)
(* the batch loops of main.  Strings are TLA+ strings; the regular         *)
(* expressions of the script are written as syntax trees and run by a      *)
(* backtracking matcher with the semantics of JScript's RegExp (leftmost   *)
(* match, greedy quantifiers, alternatives tried in order).                *)
(***************************************************************************)
EXTENDS Integers, Sequences, FiniteSets, TLC

(***************************************************************************)
(* Characters and strings                                                  *)
(***************************************************************************)
Ch(s, i) == SubSeq(s, i, i)

UpperCase == "ABCDEFGHIJKLMNOPQRSTUVWXYZ"
LowerCase == "abcdefghijklmnopqrstuvwxyz"
Digits == {"0", "1", "2", "3", "4", "5", "6", "7", "8", "9"}
WhiteSpace == {" ", "\t", "\n", "\r", "\f"}

LowerOf ==
    [c \in {Ch(UpperCase, k) : k \in 1..26} |->
        Ch(LowerCase, CHOOSE k \in 1..26 : Ch(UpperCase, k) = c)]
UpperOf ==
    [c \in {Ch(LowerCase, k) : k \in 1..26} |->
        Ch(UpperCase, CHOOSE k \in 1..26 : Ch(LowerCase, k) = c)]

ToLower(c) == IF c \in DOMAIN LowerOf THEN LowerOf[c] ELSE c
ToUpper(c) == IF c \in DOMAIN UpperOf THEN UpperOf[c] ELSE c

(***************************************************************************)
(* Regular expressions: syntax trees                                       *)
(***************************************************************************)
Lit(str) == [t |-> "lit", s |-> str]
Set(chars) == [t |-> "set", cs |-> chars, neg |-> FALSE]
NotSet(chars) == [t |-> "set", cs |-> chars, neg |-> TRUE]
Cat(nodes) == [t |-> "cat", rs |-> nodes]
Alt(nodes) == [t |-> "alt", rs |-> nodes]
Rep(node, lo, hi) == [t |-> "rep", r |-> node, min |-> lo, max |-> hi]
Cap(n, node) == [t |-> "cap", r |-> node, n |-> n]
Bol == [t |-> "bol"]
Eol == [t |-> "eol"]

Unbounded == -1
Star(node) == Rep(node, 0, Unbounded)
Plus(node) == Rep(node, 1, Unbounded)
Opt(node) == Rep(node, 0, 1)
ReS == Set(WhiteSpace)
ReD == Set(Digits)
\* the dot: any character but a line terminator
ReDot == NotSet({"\n", "\r"})

(***************************************************************************)
(* The matcher.  RunRe(r, ci, str, i, st) is the sequence of ways r can    *)
(* match str from position i, in the order a backtracking engine tries     *)
(* them; each way is the position after the match, the captured texts and  *)
(* which groups took part.                                                 *)
(***************************************************************************)
CharIn(c, node, ci) ==
    LET hit == \/ c \in node.cs
               \/ ci /\ (ToLower(c) \in node.cs \/ ToUpper(c) \in node.cs)
    IN hit # node.neg

LitAt(lit, ci, str, i) ==
    /\ i + Len(lit) - 1 <= Len(str)
    /\ \A k \in 1..Len(lit) :
          \/ Ch(str, i + k - 1) = Ch(lit, k)
          \/ ci /\ ToLower(Ch(str, i + k - 1)) = ToLower(Ch(lit, k))

\* the concatenation of seqs[lo..hi], by halves
RECURSIVE Flatten(_, _, _)
Flatten(seqs, lo, hi) ==
    IF lo > hi THEN <<>>
    ELSE IF lo = hi THEN seqs[lo]
    ELSE LET mid == (lo + hi) \div 2
         IN Flatten(seqs, lo, mid) \o Flatten(seqs, mid + 1, hi)

\* how many characters from position i on belong to the class
RunLength(node, ci, str, i) ==
    IF i > Len(str) \/ ~CharIn(Ch(str, i), node, ci) THEN 0
    ELSE LET stops == {j \in i..Len(str) : ~CharIn(Ch(str, j), node, ci)}
         IN IF stops = {} THEN Len(str) + 1 - i
            ELSE (CHOOSE j \in stops : \A k \in stops : j <= k) - i

\* a quantified character class: the longest run first, then shorter ones
AtMost(run, max) == IF max = Unbounded \/ run <= max THEN run ELSE max
ClassWays(most, min, i, st) ==
    IF most < min THEN <<>>
    ELSE [k \in 1..(most - min + 1) |-> [e |-> i + most - k + 1, c |-> st.c, g |-> st.g]]

RECURSIVE RunRe(_, _, _, _, _)
RECURSIVE RunCat(_, _, _, _, _, _)
RECURSIVE RunRep(_, _, _, _, _, _)

RunRe(r, ci, str, i, st) ==
    CASE r.t = "lit" ->
           IF LitAt(r.s, ci, str, i) THEN <<[e |-> i + Len(r.s), c |-> st.c, g |-> st.g]>> ELSE <<>>
      [] r.t = "set" ->
           IF i <= Len(str) /\ CharIn(Ch(str, i), r, ci)
           THEN <<[e |-> i + 1, c |-> st.c, g |-> st.g]>> ELSE <<>>
      [] r.t = "bol" -> IF i = 1 THEN <<[e |-> i, c |-> st.c, g |-> st.g]>> ELSE <<>>
      [] r.t = "eol" -> IF i = Len(str) + 1 THEN <<[e |-> i, c |-> st.c, g |-> st.g]>> ELSE <<>>
      [] r.t = "cat" -> RunCat(r.rs, 1, ci, str, i, st)
      [] r.t = "alt" ->
           Flatten([k \in 1..Len(r.rs) |-> RunRe(r.rs[k], ci, str, i, st)], 1, Len(r.rs))
      [] r.t = "rep" ->
           IF r.r.t = "set"
           THEN ClassWays(AtMost(RunLength(r.r, ci, str, i), r.max), r.min, i, st)
           ELSE RunRep(r, 0, ci, str, i, st)
      [] r.t = "cap" ->
           LET inner == RunRe(r.r, ci, str, i, st)
           IN [k \in 1..Len(inner) |->
                 [e |-> inner[k].e,
                  c |-> [inner[k].c EXCEPT ![r.n] = SubSeq(str, i, inner[k].e - 1)],
                  g |-> [inner[k].g EXCEPT ![r.n] = TRUE]]]

\* rs[k..] in sequence: every way of rs[k], each continued by rs[k+1..]
RunCat(rs, k, ci, str, i, st) ==
    IF k > Len(rs) THEN <<[e |-> i, c |-> st.c, g |-> st.g]>>
    ELSE LET heads == RunRe(rs[k], ci, str, i, st)
         IN Flatten([j \in 1..Len(heads) |-> RunCat(rs, k + 1, ci, str, heads[j].e, heads[j])],
                    1, Len(heads))

\* greedy: the ways with one more iteration (that made progress) come before
\* stopping after n iterations
RunRep(r, n, ci, str, i, st) ==
    LET heads == IF r.max = Unbounded \/ n < r.max THEN RunRe(r.r, ci, str, i, st) ELSE <<>>
        more == Flatten([j \in 1..Len(heads) |->
                           IF heads[j].e > i
                           THEN RunRep(r, n + 1, ci, str, heads[j].e, heads[j]) ELSE <<>>],
                        1, Len(heads))
        stop == IF n >= r.min THEN <<[e |-> i, c |-> st.c, g |-> st.g]>> ELSE <<>>
    IN more \o stop

\* before a match starts: the two capture groups empty, neither has taken part
Fresh == [c |-> <<"", "">>, g |-> <<FALSE, FALSE>>]
NoMatch == [found |-> FALSE, s |-> 0, e |-> 0, m |-> "", c |-> Fresh.c, g |-> Fresh.g]

\* the least of a set of positions, 0 when there is none
FirstOf(positions) ==
    IF positions = {} THEN 0 ELSE CHOOSE p \in positions : \A q \in positions : p <= q

\* the match object: the first of the ways found at position start
MatchOf(str, start, ways) ==
    [found |-> TRUE, s |-> start, e |-> ways[1].e,
     m |-> SubSeq(str, start, ways[1].e - 1), c |-> ways[1].c, g |-> ways[1].g]

MatchAt(r, ci, str, start) ==
    IF start = 0 THEN NoMatch ELSE MatchOf(str, start, RunRe(r, ci, str, start, Fresh))

\* String.prototype.match / RegExp.exec without the g flag, searching from
\* position from: the first way at the leftmost position that has one
ExecFrom(r, ci, str, from) ==
    MatchAt(r, ci, str,
            FirstOf({p \in from..(Len(str) + 1) : RunRe(r, ci, str, p, Fresh) # <<>>}))

Exec(r, ci, str) == ExecFrom(r, ci, str, 1)
Test(r, ci, str) == Exec(r, ci, str).found

\* all the matches of a g-flag regular expression, left to right
RECURSIVE MatchAllFrom(_, _, _, _)
RECURSIVE MatchAllAfter(_, _, _, _)
MatchAllAfter(r, ci, str, m) ==
    IF ~m.found THEN <<>>
    ELSE <<m>> \o MatchAllFrom(r, ci, str, IF m.e > m.s THEN m.e ELSE m.e + 1)

MatchAllFrom(r, ci, str, from) == MatchAllAfter(r, ci, str, ExecFrom(r, ci, str, from))

MatchAll(r, ci, str) == MatchAllFrom(r, ci, str, 1)

\* String.prototype.replace with a g-flag regular expression: ms are the
\* matches, reps the text that replaces each
RECURSIVE Splice(_, _, _, _, _)
Splice(str, ms, reps, k, from) ==
    IF k > Len(ms) THEN SubSeq(str, from, Len(str))
    ELSE SubSeq(str, from, ms[k].s - 1) \o reps[k] \o Splice(str, ms, reps, k + 1, ms[k].e)

ReplaceAllWith(r, ci, str, rep) ==
    Splice(str, MatchAll(r, ci, str), [k \in 1..Len(str) + 1 |-> rep], 1, 1)

(***************************************************************************)
(* Utility functions of the script                                         *)
(***************************************************************************)
\* trimString: str.replace(/^\s+|\s+$/g, ""): what is left runs from the first
\* to the last character that is not white space
trimString(str) ==
    LET inked == {k \in 1..Len(str) : Ch(str, k) \notin WhiteSpace}
    IN IF str = "" \/ inked = {} THEN ""
       ELSE SubSeq(str, CHOOSE k \in inked : \A j \in inked : k <= j,
                        CHOOSE k \in inked : \A j \in inked : k >= j)

\* a JScript value used as a condition: the empty string is falsy
Truthy(str) == str # ""

RECURSIVE StripWhiteSpace(_)
StripWhiteSpace(s) ==
    IF s = "" THEN ""
    ELSE (IF Head(s) \in WhiteSpace THEN "" ELSE Head(s)) \o StripWhiteSpace(Tail(s))

RECURSIVE Join(_, _)
Join(strs, sep) ==
    IF strs = <<>> THEN ""
    ELSE IF Len(strs) = 1 THEN strs[1]
    ELSE strs[1] \o sep \o Join(Tail(strs), sep)

(***************************************************************************)
(* decodeURIComponent on ASCII input: %XX with XX below 0x80 is the        *)
(* character with that code; a % that is not followed by two hexadecimal   *)
(* digits, or a byte from 0x80 on that does not start a well-formed UTF-8  *)
(* sequence, raises URIError.  The characters a TLA+ string cannot hold     *)
(* (the grave accent and most control characters) are written "?".         *)
(***************************************************************************)
Ascii == " !\"#$%&'()*+,-./0123456789:;<=>?@ABCDEFGHIJKLMNOPQRSTUVWXYZ[\\]^_?abcdefghijklmnopqrstuvwxyz{|}~"
HexDigits == "0123456789ABCDEF"
Returned(str) == [thrown |-> FALSE, val |-> str]
URIError == [thrown |-> TRUE, val |-> "URIError"]

IsHex(c) == \E k \in 1..16 : Ch(HexDigits, k) = ToUpper(c)
HexVal(c) == (CHOOSE k \in 1..16 : Ch(HexDigits, k) = ToUpper(c)) - 1

CharOfCode(n) ==
    IF n >= 32 /\ n <= 126 THEN Ch(Ascii, n - 31)
    ELSE IF n = 9 THEN "\t"
    ELSE IF n = 10 THEN "\n"
    ELSE IF n = 13 THEN "\r"
    ELSE IF n = 12 THEN "\f"
    ELSE "?"

RECURSIVE decodeURIComponent(_)
decodeURIComponent(s) ==
    IF s = "" THEN Returned("")
    ELSE IF Head(s) # "%"
    THEN LET rest == decodeURIComponent(Tail(s))
         IN IF rest.thrown THEN URIError ELSE Returned(Head(s) \o rest.val)
    ELSE IF Len(s) < 3 \/ ~IsHex(Ch(s, 2)) \/ ~IsHex(Ch(s, 3)) THEN URIError
    ELSE LET code == 16 * HexVal(Ch(s, 2)) + HexVal(Ch(s, 3))
             rest == decodeURIComponent(SubSeq(s, 4, Len(s)))
         IN IF code >= 128 \/ rest.thrown THEN URIError
            ELSE Returned(CharOfCode(code) \o rest.val)

(***************************************************************************)
(* isValidEclExpression, cleanAndStandardizeEcl, cleanConceptTerm          *)
(***************************************************************************)
OneOrTwo(c) == Rep(Lit(c), 1, 2)

HasEclOperatorsPattern == Alt(<<Set({"<", ">", "^"}), Lit("AND"), Lit("OR"), Lit("MINUS")>>)
ConceptIdPattern == Rep(ReD, 6, 18)
LogicalJoinPattern == Cat(<<Plus(ReS), Alt(<<Lit("or"), Lit("and"), Lit("minus")>>), Plus(ReS)>>)
OperatorDigitPattern ==
    Alt(<<Cat(<<OneOrTwo("<"), Star(ReS), ReD>>),
          Cat(<<OneOrTwo(">"), Star(ReS), ReD>>),
          Cat(<<Lit("^"), Star(ReS), ReD>>)>>)

MinPlausibleLength == 20

\* variant: hasLogicalStructure without its operator-and-digit alternative
isValidEclExpression_JoinOnly(expression) ==
    LET hasEclOperators == Test(HasEclOperatorsPattern, TRUE, expression)
        hasConceptIds == Test(ConceptIdPattern, FALSE, expression)
        hasLogicalStructure == Test(LogicalJoinPattern, TRUE, expression)
    IN hasEclOperators /\ hasConceptIds
       /\ (hasLogicalStructure \/ Len(expression) > MinPlausibleLength)

isValidEclExpression(expression) ==
    LET hasEclOperators == Test(HasEclOperatorsPattern, TRUE, expression)
        hasConceptIds == Test(ConceptIdPattern, FALSE, expression)
        hasLogicalStructure == \/ Test(LogicalJoinPattern, TRUE, expression)
                               \/ Test(OperatorDigitPattern, FALSE, expression)
    IN hasEclOperators /\ hasConceptIds
       /\ (hasLogicalStructure \/ Len(expression) > MinPlausibleLength)

KeywordPattern(word) == Cat(<<Plus(ReS), Lit(word), Plus(ReS)>>)
AroundOperatorPattern(c) == Cat(<<Star(ReS), OneOrTwo(c), Star(ReS)>>)
AroundCaretPattern == Cat(<<Star(ReS), Lit("^"), Star(ReS)>>)
SemanticTagInTermPattern ==
    Cat(<<Lit("|"), Cap(1, Plus(NotSet({"|"}))), Star(ReS),
          Lit("("), Plus(NotSet({")"})), Lit(")"), Star(ReS), Lit("|")>>)

\* cleaned.replace(/\s*<{1,2}\s*/g, function(match) {...}) and the same for >
Tightened(str, ms) ==
    Splice(str, ms, [k \in 1..Len(ms) |-> StripWhiteSpace(ms[k].m) \o " "], 1, 1)
TightenOperator(c, str) == Tightened(str, MatchAll(AroundOperatorPattern(c), FALSE, str))

\* cleaned.replace(/\|([^|]+)\s*\([^)]+\)\s*\|/g, function(match, term) {...})
TermsRewritten(str, ms) ==
    Splice(str, ms, [k \in 1..Len(ms) |-> "|" \o trimString(ms[k].c[1]) \o "|"], 1, 1)
StripSemanticTags(str) == TermsRewritten(str, MatchAll(SemanticTagInTermPattern, FALSE, str))

cleanAndStandardizeEcl(eclExpression) ==
    LET c0 == trimString(eclExpression)
        c1 == ReplaceAllWith(KeywordPattern("or"), TRUE, c0, " OR ")
        c2 == ReplaceAllWith(KeywordPattern("and"), TRUE, c1, " AND ")
        c3 == ReplaceAllWith(KeywordPattern("minus"), TRUE, c2, " MINUS ")
        c4 == TightenOperator("<", c3)
        c5 == TightenOperator(">", c4)
        c6 == ReplaceAllWith(AroundCaretPattern, FALSE, c5, "^ ")
        c7 == StripSemanticTags(c6)
        c8 == ReplaceAllWith(Plus(ReS), FALSE, c7, " ")
    IN trimString(c8)

TrailingSemanticTagPattern ==
    Cat(<<Star(ReS), Lit("("), Plus(NotSet({")"})), Lit(")"), Star(ReS), Eol>>)

cleanConceptTerm(term) ==
    trimString(ReplaceAllWith(TrailingSemanticTagPattern, FALSE, term, ""))

(***************************************************************************)
(* Tagged values of an element.  TaggedValues is the element's collection, *)
(* in order; a tag whose access raises an error (malformed metadata) has   *)
(* unreadable = TRUE.                                                      *)
(***************************************************************************)
MemoMarker == "<memo>"
MemoThreshold == 255

Tag(name, value) == [Name |-> name, Value |-> value, Notes |-> "", unreadable |-> FALSE]
UnreadableTag == [Name |-> "", Value |-> "", Notes |-> "", unreadable |-> TRUE]

\* the index the loop 'for i < TaggedValues.Count' stops at: the first tag
\* that raises or has the name; 0 when the loop runs to the end
FirstTagIndex(TaggedValues, tagName) ==
    LET stops == {k \in 1..Len(TaggedValues) :
                     TaggedValues[k].unreadable \/ TaggedValues[k].Name = tagName}
    IN IF stops = {} THEN 0 ELSE CHOOSE k \in stops : \A j \in stops : k <= j

\* variant: the Value is returned as it stands, the Notes are never read
getTaggedValue_ValueOnly(element, tagName) ==
    LET k == FirstTagIndex(element.TaggedValues, tagName)
        tag == element.TaggedValues[k]
    IN IF k = 0 THEN ""
       ELSE IF tag.unreadable THEN ""
       ELSE tag.Value

getTaggedValue(element, tagName) ==
    LET k == FirstTagIndex(element.TaggedValues, tagName)
        tag == element.TaggedValues[k]
    IN IF k = 0 THEN ""
       ELSE IF tag.unreadable THEN ""            \* caught: WARNING, falls to return ""
       ELSE IF tag.Value = MemoMarker THEN tag.Notes
       ELSE tag.Value

\* variant: a tag of the name is added though the element has one
addOrUpdateTaggedValue_AddOnly(element, tagName, tagValue) ==
    LET k == FirstTagIndex(element.TaggedValues, tagName)
        long == Len(tagValue) > MemoThreshold
    IN IF k # 0 /\ element.TaggedValues[k].unreadable
       THEN [thrown |-> TRUE, element |-> element]
       ELSE [thrown |-> FALSE,
             element |-> [element EXCEPT !.TaggedValues =
                            Append(@, IF long
                                      THEN [Tag(tagName, MemoMarker) EXCEPT !.Notes = tagValue]
                                      ELSE Tag(tagName, tagValue))]]

\* the element after the call, and whether the call threw
addOrUpdateTaggedValue(element, tagName, tagValue) ==
    LET k == FirstTagIndex(element.TaggedValues, tagName)
        long == Len(tagValue) > MemoThreshold
    IN IF k # 0 /\ element.TaggedValues[k].unreadable
       THEN [thrown |-> TRUE, element |-> element]
       ELSE IF k # 0
       THEN [thrown |-> FALSE,
             element |-> [element EXCEPT !.TaggedValues[k] =
                            IF long THEN [@ EXCEPT !.Value = MemoMarker, !.Notes = tagValue]
                            ELSE [@ EXCEPT !.Value = tagValue, !.Notes = ""]]]
       ELSE [thrown |-> FALSE,
             element |-> [element EXCEPT !.TaggedValues =
                            Append(@, IF long
                                      THEN [Tag(tagName, MemoMarker) EXCEPT !.Notes = tagValue]
                                      ELSE Tag(tagName, tagValue))]]

(***************************************************************************)
(* The elements the model is run on                                       *)
(***************************************************************************)
HeaderExampleValueSet == "SNOMED CT: - <71388002 |Procedure (procedure)|"
OldEcl == "< 404684003 |Clinical finding|"

Element(tags) == [TaggedValues |-> tags]

\* elements with well-formed metadata
Catalogue ==
    << Element(<<Tag("valueSets", HeaderExampleValueSet)>>),
       Element(<<Tag("snomedECL", OldEcl), Tag("valueSets", "dm+d: 123456"),
                 Tag("eclSource", "Manual"), Tag("eclConversionDate", "2023-01-31")>>),
       Element(<<Tag("valueSets", "Local procedure codes")>>),
       Element(<<Tag("valueSets", "")>>),
       Element(<<Tag("description", "no value set")>>),
       Element(<<Tag("valueSets", " \t"), Tag("snomedECL", "")>>),
       Element(<<Tag("valueSets", "Local procedure codes"), Tag("snomedECL", OldEcl)>>),
       Element(<<Tag("snomedECL", "  "), Tag("valueSets", "SNOMED CT: 123456, 234567")>>),
       Element(<<Tag("valueSets", "http://snomed.info/sct?fhir_vs=ecl/%3C%20123456%")>>),
       Element(<<Tag("valueSets", "http://snomed.info/sct?fhir_vs=ecl/%3C%3C123456%20or%20%5E234567"),
                 Tag("snomedECL", OldEcl)>>),
       Element(<<Tag("valueSets", "SNOMED CT: x\nSNOMED CT <<123456 |Foot (body structure)|"),
                 Tag("eclSource", "Manual")>>) >>

\* elements with a tagged value that cannot be read
MalformedCatalogue ==
    << Element(<<UnreadableTag, Tag("snomedECL", OldEcl), Tag("valueSets", "dm+d: 123456")>>),
       Element(<<Tag("valueSets", "dm+d: 123456"), UnreadableTag>>),
       Element(<<Tag("valueSets", "<<123456 |Foot (body structure)|"), Tag("snomedECL", ""),
                 UnreadableTag>>),
       Element(<<Tag("snomedECL", OldEcl), UnreadableTag, Tag("valueSets", "^123456")>>),
       Element(<<Tag("valueSets", "123456 |Foot|"), Tag("snomedECL", ""),
                 Tag("eclSource", "Manual"), UnreadableTag>>) >>

(***************************************************************************)
(* extractSnomedEclFromValueSet: the patterns                              *)
(***************************************************************************)
\* SNOMED[\s\-]*CT
SnomedCt == <<Lit("SNOMED"), Star(Set(WhiteSpace \cup {"-"})), Lit("CT")>>
\* [\s\(UK\)]?\s*:?\s*
LoosePrefixTail == <<Opt(Set(WhiteSpace \cup {"(", "U", "K", ")"})), Star(ReS), Opt(Lit(":")), Star(ReS)>>
\* -?\s*
DashTail == <<Opt(Lit("-")), Star(ReS)>>
\* (\d{6,18})
IdGroup == Cap(1, Rep(ReD, 6, 18))
\* \s*(?:\|([^|]+)\|)?
TermTail == <<Star(ReS), Opt(Cat(<<Lit("|"), Cap(2, Plus(NotSet({"|"}))), Lit("|")>>))>>

complexEclPattern ==
    Cat(SnomedCt \o <<Star(ReS), Opt(Lit("(UK)")), Star(ReS), Lit(":"), Opt(Lit("-")),
                      Star(ReS), Cap(1, Plus(ReDot))>>)
altPrefixPattern ==
    Cat(<<Cap(1, Alt(<<Lit("SCT"), Lit("SNOMEDCT"), Cat(SnomedCt)>>))>>
        \o LoosePrefixTail \o <<Cap(2, Plus(ReDot))>>)
dmdPattern == Cat(<<Lit("dm+d:"), Star(ReS), Cap(1, Plus(ReD))>>)
refsetPattern ==
    Cat(SnomedCt \o LoosePrefixTail \o DashTail \o <<Lit("^"), IdGroup>> \o TermTail)
exactPattern ==
    Cat(SnomedCt \o LoosePrefixTail \o <<IdGroup>> \o TermTail
        \o <<Star(ReS), Alt(<<Lit("(exact)"), Lit("only"), Lit("self")>>)>>)
\* descendantsInclusivePattern, descendantsExclusivePattern, ancestorsInclusivePattern
\* and ancestorsExclusivePattern: one shape, with <<, <, >> and > for op
OperatorPattern(op) ==
    Cat(SnomedCt \o LoosePrefixTail \o DashTail \o <<Lit(op), Star(ReS), IdGroup>> \o TermTail)
fhirEclPattern == Cat(<<Lit("snomed.info/sct?fhir_vs=ecl/"), Cap(1, Plus(ReDot))>>)
fhirRefsetPattern == Cat(<<Lit("snomed.info/sct?fhir_vs=refset/"), IdGroup>>)
simpleConceptPattern == Cat(SnomedCt \o LoosePrefixTail \o <<IdGroup>>)
multipleConceptPattern ==
    Cat(<<Lit("SNOMED"), Star(NotSet({":"})), Lit(":"), Star(ReS),
          Cap(1, Plus(Set(Digits \cup WhiteSpace \cup {","})))>>)
standaloneRefsetPattern == Cat(<<Bol, Lit("^"), IdGroup>>)
standaloneConceptPattern ==
    Cat(<<Opt(Alt(<<OneOrTwo("<"), OneOrTwo(">")>>)), Star(ReS), IdGroup>> \o TermTail)
PureNumberListPattern == Cat(<<Bol, Plus(Set(Digits \cup WhiteSpace \cup {","})), Eol>>)

DefaultConceptTerm == "SNOMED CT concept"
DefaultRefsetTerm == "SNOMED CT reference set"

\* matchN[2] ? cleanConceptTerm(trimString(matchN[2])) : "SNOMED CT concept"
ConceptTermOf(m) ==
    IF Truthy(m.c[2]) THEN cleanConceptTerm(trimString(m.c[2])) ELSE DefaultConceptTerm

Miss == [hit |-> FALSE, out |-> Returned("")]
Hit(str) == [hit |-> TRUE, out |-> Returned(str)]

\* patterns 1 and 2: the captured tail must pass isValidEclExpression
ValidatedExpression(matched, expression) ==
    IF matched /\ isValidEclExpression(expression)
    THEN Hit(cleanAndStandardizeEcl(expression)) ELSE Miss
ComplexEclBlock(complexMatch) ==
    ValidatedExpression(complexMatch.found, trimString(complexMatch.c[1]))
AltPrefixBlock(altMatch, complexMatch) ==
    ValidatedExpression(altMatch.found /\ ~complexMatch.found, trimString(altMatch.c[2]))

\* variant: the whole match in place of the captured digits
DmdBlock_WholeMatch(dmdMatch) ==
    IF dmdMatch.found THEN Hit("< " \o dmdMatch.m \o " |dm+d concept|") ELSE Miss

DmdBlock(dmdMatch) ==
    IF dmdMatch.found THEN Hit("< " \o dmdMatch.c[1] \o " |dm+d concept|") ELSE Miss

RefsetBlock(refsetMatch) ==
    IF refsetMatch.found
    THEN Hit("^ " \o refsetMatch.c[1] \o " |"
             \o (IF Truthy(refsetMatch.c[2]) THEN trimString(refsetMatch.c[2])
                 ELSE DefaultRefsetTerm) \o "|")
    ELSE Miss

ExactBlock(exactMatch) ==
    IF exactMatch.found
    THEN Hit(exactMatch.c[1] \o " |" \o ConceptTermOf(exactMatch) \o "|") ELSE Miss

\* patterns 6-9 share one shape
OperatorBlock(op, m) ==
    IF m.found THEN Hit(op \o " " \o m.c[1] \o " |" \o ConceptTermOf(m) \o "|") ELSE Miss
OperatorRecognizer(op, valueSet) ==
    OperatorBlock(op, Exec(OperatorPattern(op), TRUE, valueSet))

\* pattern 10: decodeURIComponent may throw
FhirEclDecoded(eclExpression) ==
    IF eclExpression.thrown THEN [hit |-> TRUE, out |-> URIError]
    ELSE Hit(cleanAndStandardizeEcl(eclExpression.val))
FhirEclBlock(fhirEclMatch) ==
    IF fhirEclMatch.found THEN FhirEclDecoded(decodeURIComponent(fhirEclMatch.c[1])) ELSE Miss

FhirRefsetBlock(fhirRefsetMatch) ==
    IF fhirRefsetMatch.found
    THEN Hit("^ " \o fhirRefsetMatch.c[1] \o " |" \o DefaultRefsetTerm \o "|") ELSE Miss

SimpleConceptBlock(simpleConceptMatch) ==
    IF simpleConceptMatch.found
    THEN Hit("< " \o simpleConceptMatch.c[1] \o " |" \o DefaultConceptTerm \o "|") ELSE Miss

\* pattern 13: the ids of the list, each as "< id |SNOMED CT concept|", joined by OR
ConceptsJoined(conceptIds) ==
    IF Len(conceptIds) > 0
    THEN Hit(Join([k \in 1..Len(conceptIds) |->
                     "< " \o conceptIds[k].m \o " |" \o DefaultConceptTerm \o "|"], " OR "))
    ELSE Miss
MultipleConceptBlock(multipleConceptMatch) ==
    IF multipleConceptMatch.found
    THEN ConceptsJoined(MatchAll(ConceptIdPattern, FALSE, multipleConceptMatch.c[1]))
    ELSE Miss

StandaloneRefsetBlock(standaloneRefsetMatch) ==
    IF standaloneRefsetMatch.found
    THEN Hit("^ " \o standaloneRefsetMatch.c[1] \o " |" \o DefaultRefsetTerm \o "|") ELSE Miss

StandaloneConceptBlock(standaloneConceptMatch, pureNumberList) ==
    IF standaloneConceptMatch.found /\ ~pureNumberList
    THEN Hit("< " \o standaloneConceptMatch.c[1] \o " |"
             \o ConceptTermOf(standaloneConceptMatch) \o "|")
    ELSE Miss

\* variant: the multiple-concept block ahead of the simple-concept block
RecognizerOrder_Swapped ==
    <<"complexEcl", "altPrefix", "dmd", "refset", "exact",
      "descendantsInclusive", "descendantsExclusive",
      "ancestorsInclusive", "ancestorsExclusive",
      "fhirEcl", "fhirRefset", "multipleConcept", "simpleConcept",
      "standaloneRefset", "standaloneConcept">>
\* the 'Pattern N' blocks of extractSnomedEclFromValueSet, in source order
RecognizerOrder ==
    <<"complexEcl", "altPrefix", "dmd", "refset", "exact",
      "descendantsInclusive", "descendantsExclusive",
      "ancestorsInclusive", "ancestorsExclusive",
      "fhirEcl", "fhirRefset", "simpleConcept", "multipleConcept",
      "standaloneRefset", "standaloneConcept">>

\* what one block does with the trimmed valueSet: hit when it returns (or throws)
Recognize(name, valueSet) ==
    CASE name = "complexEcl" -> ComplexEclBlock(Exec(complexEclPattern, TRUE, valueSet))
      [] name = "altPrefix" ->
           AltPrefixBlock(Exec(altPrefixPattern, TRUE, valueSet),
                          Exec(complexEclPattern, TRUE, valueSet))
      [] name = "dmd" -> DmdBlock(Exec(dmdPattern, TRUE, valueSet))
      [] name = "refset" -> RefsetBlock(Exec(refsetPattern, TRUE, valueSet))
      [] name = "exact" -> ExactBlock(Exec(exactPattern, TRUE, valueSet))
      [] name = "descendantsInclusive" -> OperatorRecognizer("<<", valueSet)
      [] name = "descendantsExclusive" -> OperatorRecognizer("<", valueSet)
      [] name = "ancestorsInclusive" -> OperatorRecognizer(">>", valueSet)
      [] name = "ancestorsExclusive" -> OperatorRecognizer(">", valueSet)
      [] name = "fhirEcl" -> FhirEclBlock(Exec(fhirEclPattern, TRUE, valueSet))
      [] name = "fhirRefset" -> FhirRefsetBlock(Exec(fhirRefsetPattern, TRUE, valueSet))
      [] name = "simpleConcept" ->
           SimpleConceptBlock(Exec(simpleConceptPattern, TRUE, valueSet))
      [] name = "multipleConcept" ->
           MultipleConceptBlock(Exec(multipleConceptPattern, TRUE, valueSet))
      [] name = "standaloneRefset" ->
           StandaloneRefsetBlock(Exec(standaloneRefsetPattern, FALSE, valueSet))
      [] name = "standaloneConcept" ->
           StandaloneConceptBlock(Exec(standaloneConceptPattern, FALSE, valueSet),
                                  Test(PureNumberListPattern, FALSE, valueSet))

\* the blocks run in order until one returns
RECURSIVE ExtractFrom(_, _)
RECURSIVE ReturnOrGoOn(_, _, _)
ReturnOrGoOn(r, k, valueSet) == IF r.hit THEN r.out ELSE ExtractFrom(k + 1, valueSet)

ExtractFrom(k, valueSet) ==
    IF k > Len(RecognizerOrder) THEN Returned("")
    ELSE ReturnOrGoOn(Recognize(RecognizerOrder[k], valueSet), k, valueSet)

extractSnomedEclFromValueSet(valueSetString) ==
    IF ~Truthy(valueSetString) \/ trimString(valueSetString) = "" THEN Returned("")
    ELSE ExtractFrom(1, trimString(valueSetString))

\* the value of a key in a table of <<key, value>> pairs
Entry(table, key) == (CHOOSE entry \in table : entry[1] = key)[2]

\* the results for the valueSets of the catalogues, computed once
ExtractTable ==
    {<<v, extractSnomedEclFromValueSet(v)>> :
        v \in {getTaggedValue((Catalogue \o MalformedCatalogue)[k], "valueSets") :
                  k \in 1..Len(Catalogue \o MalformedCatalogue)}}
ExtractKnown(valueSetString) == Entry(ExtractTable, valueSetString)

(***************************************************************************)
(* getCurrentDate: now is the local date [year, month, day]                *)
(***************************************************************************)
RECURSIVE NumberToString(_)
NumberToString(n) ==
    (IF n < 10 THEN "" ELSE NumberToString(n \div 10)) \o Ch("0123456789", (n % 10) + 1)

getCurrentDate(now) ==
    LET month == IF now.month < 10 THEN "0" \o NumberToString(now.month)
                 ELSE NumberToString(now.month)
        day == IF now.day < 10 THEN "0" \o NumberToString(now.day)
               ELSE NumberToString(now.day)
    IN NumberToString(now.year) \o "-" \o month \o "-" \o day

(***************************************************************************)
(* convertSingleDataElement: the element and the counters after the call,  *)
(* and the helper calls it made, in order                                  *)
(***************************************************************************)
EclSourceText == "Converted from valueSets"

ZeroCounter ==
    [elementsProcessed |-> 0, conversionsPerformed |-> 0, existingEclSkipped |-> 0,
     nonSnomedSkipped |-> 0, errors |-> 0]

Bump(counter, field) == [counter EXCEPT ![field] = @ + 1]

\* variant: the wrong option read
ExistingEclSkips_WrongFlag(existingEcl, config) ==
    Truthy(existingEcl) /\ trimString(existingEcl) # "" /\ config.debugMode

\* variant: the option read the wrong way round
ExistingEclSkips_Inverted(existingEcl, config) ==
    Truthy(existingEcl) /\ trimString(existingEcl) # "" /\ ~config.skipExistingEcl

\* if (existingEcl && trimString(existingEcl) !== "") { if (conversionConfig.skipExistingEcl)
ExistingEclSkips(existingEcl, config) ==
    Truthy(existingEcl) /\ trimString(existingEcl) # "" /\ config.skipExistingEcl

\* if (!valueSetString || trimString(valueSetString) === "")
NoValueSets(valueSetString) == ~Truthy(valueSetString) \/ trimString(valueSetString) = ""

\* variant: an empty result taken for a result
HasExtractedEcl_Always(extractedEcl) == TRUE

\* if (extractedEcl && trimString(extractedEcl) !== "")
HasExtractedEcl(extractedEcl) == Truthy(extractedEcl) /\ trimString(extractedEcl) # ""

\* variant: eclSource is not written
WriteConversionRecord_NoSource(element, extractedEcl, now) ==
    LET w1 == addOrUpdateTaggedValue(element, "snomedECL", extractedEcl)
        w3 == addOrUpdateTaggedValue(w1.element, "eclConversionDate", getCurrentDate(now))
    IN IF w1.thrown
       THEN [thrown |-> TRUE, element |-> w1.element, calls |-> <<"set snomedECL">>]
       ELSE [thrown |-> w3.thrown, element |-> w3.element,
             calls |-> <<"set snomedECL", "set eclConversionDate">>]

\* the three addOrUpdateTaggedValue calls; the first that throws ends them
WriteConversionRecord(element, extractedEcl, now) ==
    LET w1 == addOrUpdateTaggedValue(element, "snomedECL", extractedEcl)
        w2 == addOrUpdateTaggedValue(w1.element, "eclSource", EclSourceText)
        w3 == addOrUpdateTaggedValue(w2.element, "eclConversionDate", getCurrentDate(now))
    IN IF w1.thrown
       THEN [thrown |-> TRUE, element |-> w1.element, calls |-> <<"set snomedECL">>]
       ELSE IF w2.thrown
       THEN [thrown |-> TRUE, element |-> w2.element,
             calls |-> <<"set snomedECL", "set eclSource">>]
       ELSE [thrown |-> w3.thrown, element |-> w3.element,
             calls |-> <<"set snomedECL", "set eclSource", "set eclConversionDate">>]

\* the outcomes: the element as the call leaves it, what the call has added to
\* conversionCounter, and the helper calls it made
\* variant: a kept snomedECL counted as a non-SNOMED element
SkippedExisting_AsNonSnomed(element, counted, calls) ==
    [element |-> element, counter |-> Bump(counted, "nonSnomedSkipped"), calls |-> calls]
SkippedExisting(element, counted, calls) ==
    [element |-> element, counter |-> Bump(counted, "existingEclSkipped"), calls |-> calls]
\* variant: an element without SNOMED valueSets counted as an error
SkippedNonSnomed_AsError(element, counted, calls) ==
    [element |-> element, counter |-> Bump(counted, "errors"), calls |-> calls]
SkippedNonSnomed(element, counted, calls) ==
    [element |-> element, counter |-> Bump(counted, "nonSnomedSkipped"), calls |-> calls]
Converted(element, counted, calls) ==
    [element |-> element, counter |-> Bump(counted, "conversionsPerformed"), calls |-> calls]
\* variant: the catch block without its errors++
Caught_Uncounted(element, counted, calls) ==
    [element |-> element, counter |-> counted, calls |-> calls]
\* catch (e) { ... conversionCounter.errors++; }
Caught(element, counted, calls) ==
    [element |-> element, counter |-> Bump(counted, "errors"), calls |-> calls]

\* variant: conversionsPerformed++ ahead of the three writes
CountWritten_CountedAhead(written, counted, calls) ==
    IF written.thrown
    THEN Caught(written.element, Bump(counted, "conversionsPerformed"), calls \o written.calls)
    ELSE Converted(written.element, counted, calls \o written.calls)

\* after the three writes
CountWritten(written, counted, calls) ==
    IF written.thrown THEN Caught(written.element, counted, calls \o written.calls)
    ELSE Converted(written.element, counted, calls \o written.calls)

\* after extractSnomedEclFromValueSet
RecordExtracted(element, now, counted, calls, extractedEcl) ==
    IF extractedEcl.thrown THEN Caught(element, counted, calls)
    ELSE IF ~HasExtractedEcl(extractedEcl.val) THEN SkippedNonSnomed(element, counted, calls)
    ELSE CountWritten(WriteConversionRecord(element, extractedEcl.val, now), counted, calls)

\* after getTaggedValue(element, "valueSets")
ConvertValueSets(element, now, counted, valueSetString) ==
    IF NoValueSets(valueSetString)
    THEN SkippedNonSnomed(element, counted, <<"get snomedECL", "get valueSets">>)
    ELSE RecordExtracted(element, now, counted, <<"get snomedECL", "get valueSets", "extract">>,
                         ExtractKnown(valueSetString))

\* after getTaggedValue(element, "snomedECL")
CheckExistingEcl(element, config, now, counted, existingEcl) ==
    IF ExistingEclSkips(existingEcl, config)
    THEN SkippedExisting(element, counted, <<"get snomedECL">>)
    ELSE ConvertValueSets(element, now, counted, getTaggedValue(element, "valueSets"))

convertSingleDataElement(element, config, now) ==
    CheckExistingEcl(element, config, now, Bump(ZeroCounter, "elementsProcessed"),
                     getTaggedValue(element, "snomedECL"))

(***************************************************************************)
(* The script as a state machine                                           *)
(***************************************************************************)
VARIABLES
    conversionConfig,    \* the three options of the script
    conversionCounter,   \* the five counters
    elements,            \* the PRSB DataElements of the selected model, in tree order
    today,               \* the local date
    pc,                  \* "idle", "single", "standard", "model" or "summary"
    allDataElements,     \* the elements the running loop goes through (indexes)
    loopIndex,           \* the loop variable i
    runs,                \* how many times the script was started
    lastElement,         \* the element of the latest convertSingleDataElement call
    lastCalls,           \* the helper calls that call made
    descriptor,          \* extractSnomedEclFromValueSet: its argument valueSetString
    block,               \* extractSnomedEclFromValueSet: 0 entry, 1..15 the blocks, 16 returned
    evaluated,           \* extractSnomedEclFromValueSet: the blocks evaluated so far
    returned,            \* extractSnomedEclFromValueSet: what it returned (or threw)
    canon,               \* cleanAndStandardizeEcl: a text and its successive results
    tagCalls             \* addOrUpdateTaggedValue then getTaggedValue: the calls made

scriptVars == <<conversionConfig, conversionCounter, elements, today, pc, allDataElements,
                loopIndex, runs, lastElement, lastCalls>>
extractVars == <<descriptor, block, evaluated, returned>>
vars == <<conversionConfig, conversionCounter, elements, today, pc, allDataElements, loopIndex,
          runs, lastElement, lastCalls, descriptor, block, evaluated, returned, canon,
          tagCalls>>

MaxElements == 2
MaxRuns == 2
MaxCanonTokens == 3

DefaultConfig == [skipExistingEcl |-> TRUE, debugMode |-> TRUE, logNonSnomedElements |-> FALSE]
Configs == [skipExistingEcl : BOOLEAN, debugMode : BOOLEAN, logNonSnomedElements : BOOLEAN]

\* n consecutive entries of the catalogue from position a on, cyclically
Window(cat, a, n) == [k \in 1..n |-> cat[((a + k - 2) % Len(cat)) + 1]]

Dates == {[year |-> 2024, month |-> 12, day |-> 19], [year |-> 2025, month |-> 3, day |-> 7]}

\* the script not started, no tagged value written by hand
ScriptAtRest ==
    /\ conversionCounter = ZeroCounter
    /\ pc = "idle"
    /\ allDataElements = <<>>
    /\ loopIndex = 0
    /\ runs = 0
    /\ lastElement = 0
    /\ lastCalls = <<>>
    /\ tagCalls = <<>>

\* no call of extractSnomedEclFromValueSet or cleanAndStandardizeEcl under way
NoExtractCall ==
    /\ descriptor = ""
    /\ block = 0
    /\ evaluated = <<>>
    /\ returned = Returned("")

InitWith(cat) ==
    /\ conversionConfig \in Configs
    /\ \E a \in 1..Len(cat), n \in 0..MaxElements : elements = Window(cat, a, n)
    /\ today \in Dates
    /\ ScriptAtRest
    /\ NoExtractCall
    /\ canon = <<>>

Init == InitWith(Catalogue)
InitMalformed == InitWith(Catalogue \o MalformedCatalogue)

\* the script is started: its globals are initialised and main() dispatches on
\* the selected element
Main ==
    /\ pc = "idle"
    /\ runs < MaxRuns
    /\ runs' = runs + 1
    /\ conversionCounter' = ZeroCounter
    /\ lastElement' = 0
    /\ lastCalls' = <<>>
    /\ loopIndex' = 0
    /\ \E selected \in {"nothing", "PRSB DataElement", "PRSB Standard", "PRSB Model",
                        "PRSB Section"} :
         CASE selected = "PRSB DataElement" ->
                \E e \in 1..Len(elements) : pc' = "single" /\ allDataElements' = <<e>>
           [] selected = "PRSB Standard" ->
                pc' = "standard" /\ allDataElements' = [k \in 1..Len(elements) |-> k]
           [] selected = "PRSB Model" ->
                pc' = "model" /\ allDataElements' = [k \in 1..Len(elements) |-> k]
           [] OTHER -> pc' = "idle" /\ allDataElements' = <<>>
    /\ UNCHANGED <<conversionConfig, elements, today, extractVars, canon, tagCalls>>

\* the elements of the catalogues and what calls of convertSingleDataElement
\* make of them, with the result of the call for each, computed once
ConversionsOf(known) ==
    {<<<<el, cf, d>>, convertSingleDataElement(el, cf, d)>> :
        el \in known, cf \in Configs, d \in Dates}

RECURSIVE TableFrom(_, _)
RECURSIVE Settle(_, _, _)
Settle(known, table, n) ==
    IF n = 0 THEN table
    ELSE TableFrom(known \cup {entry[2].element : entry \in table}, n - 1)
TableFrom(known, n) == Settle(known, ConversionsOf(known), n)

ConvertTable ==
    TableFrom({(Catalogue \o MalformedCatalogue)[k] :
                  k \in 1..Len(Catalogue \o MalformedCatalogue)}, 2)

\* the call has returned r: the element, the counters and the record of the call
Returns(e, r) ==
    /\ elements' = [elements EXCEPT ![e] = r.element]
    /\ conversionCounter' = [f \in DOMAIN ZeroCounter |-> conversionCounter[f] + r.counter[f]]
    /\ lastElement' = e
    /\ lastCalls' = r.calls

\* variant: the call works on the element of the call before it
Convert_Stale(e) ==
    Returns(e, Entry(ConvertTable,
                     <<elements[IF lastElement = 0 THEN e ELSE lastElement], conversionConfig,
                       today>>))

\* one call of convertSingleDataElement on elements[e]
Convert(e) == Returns(e, Entry(ConvertTable, <<elements[e], conversionConfig, today>>))

\* main: convertSingleDataElement(selectedElement), then the summary
ConvertSelectedElement ==
    /\ pc = "single"
    /\ Convert(allDataElements[1])
    /\ pc' = "summary"
    /\ UNCHANGED <<conversionConfig, today, allDataElements, loopIndex, runs, extractVars, canon,
                   tagCalls>>

\* variant: a fault on an element ends the loop
LoopStep_StopsOnFault(loop) ==
    /\ pc = loop
    /\ IF loopIndex < Len(allDataElements)
       THEN /\ Convert(allDataElements[loopIndex + 1])
            /\ loopIndex' = loopIndex + 1
            /\ pc' = IF conversionCounter'.errors > conversionCounter.errors
                     THEN "summary" ELSE pc
       ELSE /\ pc' = "summary"
            /\ UNCHANGED <<elements, conversionCounter, lastElement, lastCalls, loopIndex>>
    /\ UNCHANGED <<conversionConfig, today, allDataElements, runs, extractVars, canon, tagCalls>>

\* one pass of the for statement of convertAllDataElementsInStandard / InModel
LoopStep(loop) ==
    /\ pc = loop
    /\ IF loopIndex < Len(allDataElements)
       THEN /\ Convert(allDataElements[loopIndex + 1])
            /\ loopIndex' = loopIndex + 1
            /\ pc' = pc
       ELSE /\ pc' = "summary"
            /\ UNCHANGED <<elements, conversionCounter, lastElement, lastCalls, loopIndex>>
    /\ UNCHANGED <<conversionConfig, today, allDataElements, runs, extractVars, canon, tagCalls>>

StandardLoop == LoopStep("standard")
ModelLoop == LoopStep("model")

displayConversionSummary ==
    /\ pc = "summary"
    /\ pc' = "idle"
    /\ UNCHANGED <<conversionConfig, conversionCounter, elements, today, allDataElements, loopIndex,
                   runs, lastElement, lastCalls, extractVars, canon, tagCalls>>

Next ==
    \/ Main
    \/ ConvertSelectedElement
    \/ StandardLoop
    \/ ModelLoop
    \/ displayConversionSummary

Spec == Init /\ [][Next]_vars
MalformedSpec == InitMalformed /\ [][Next]_vars
\* a started script runs on: every step of main and of the loops is taken in the end
FairMalformedSpec ==
    /\ MalformedSpec
    /\ WF_vars(ConvertSelectedElement) /\ WF_vars(StandardLoop) /\ WF_vars(ModelLoop)
    /\ WF_vars(displayConversionSummary)

(***************************************************************************)
(* Families of descriptors.  Each member is a record of the parts the      *)
(* descriptor is written from, with the descriptor itself as text.         *)
(***************************************************************************)
MaxListedIds == 3

\* the lists of at most n concept ids
RECURSIVE IdLists(_)
IdLists(n) ==
    IF n = 0 THEN {<<>>}
    ELSE LET shorter == IdLists(n - 1)
         IN shorter \cup {Append(ids, id) : ids \in shorter, id \in {"123456", "234567"}}

\* a SNOMED label with a colon, then a list of concept ids
ListDescriptors ==
    {[label |-> label, ids |-> ids, sep |-> sep, text |-> label \o Join(ids, sep)] :
        label \in {"SNOMED CT: ", "SNOMED: "}, ids \in IdLists(MaxListedIds) \ {<<>>},
        sep \in {", ", " "}}

\* a term as it is written after the id, and the same term without the pipes
\* and without its semantic tag
WrittenTerms ==
    {[written |-> "", clean |-> ""], [written |-> " |Foot|", clean |-> "Foot"],
     [written |-> " |Foot (body structure)|", clean |-> "Foot"],
     [written |-> " |Disorder|", clean |-> "Disorder"]}

\* one concept or reference set: an optional label, an optional operator, an
\* id of 5, 6, 18 or 19 digits, an optional term, an optional marker word
ConceptDescriptors ==
    {[label |-> label, op |-> op, gap |-> gap, id |-> id, term |-> term, marker |-> "",
      text |-> label \o op \o gap \o id \o term.written] :
        label \in {"", "SNOMED CT: ", "SNOMED CT "}, op \in {"<", "<<", ">", ">>", "^"},
        gap \in {"", " "}, id \in {"12345", "123456", "999000011000000103", "1234567890123456789"},
        term \in WrittenTerms}
    \cup
    {[label |-> label, op |-> "", gap |-> "", id |-> id, term |-> term, marker |-> marker,
      text |-> label \o id \o term.written \o marker] :
        label \in {"", "SNOMED CT: ", "SNOMED CT "},
        id \in {"12345", "123456", "999000011000000103", "1234567890123456789"},
        term \in WrittenTerms, marker \in {"", " (exact)", " only", " self"}}

\* a FHIR value set URL: the expression as the URL writes it and as it reads
\* once decoded
FhirDescriptors ==
    {[expr |-> e[1], decoded |-> e[2], text |-> prefix \o "snomed.info/sct?fhir_vs=ecl/" \o e[1]] :
        prefix \in {"http://", ""},
        e \in {<<"%3C%3C123456", "<<123456">>,
               <<"%3C%20123456%20%7CFoot%20(body%20structure)%7C", "< 123456 |Foot (body structure)|">>,
               <<"%5E999000011000000103", "^999000011000000103">>,
               <<"%3C123456%20or%20%3C%3C234567", "<123456 or <<234567">>,
               <<"<123456", "<123456">>,
               <<"<123456 or <234567", "<123456 or <234567">>,
               <<"<<123456%20minus%20<234567", "<<123456 minus <234567">>}}

\* a dm+d code: the marker, the digits, and what stands around them
DmdDescriptors ==
    {[digits |-> digits,
      text |-> before \o marker \o gap \o digits \o after] :
        before \in {"", "Drug dm+d: x ", "SNOMED CT: "}, marker \in {"dm+d:", "DM+D:"},
        gap \in {"", " "}, digits \in {"1", "123456", "12345678901234567890"},
        after \in {"", " tablets", ", dm+d: 999", " ^234567"}}

(***************************************************************************)
(* extractSnomedEclFromValueSet, one block at a time                       *)
(***************************************************************************)
Descriptors ==
    { HeaderExampleValueSet,
      "SNOMED CT: ^ 999000011000000103 |UK Drug Extension refset|",
      "SNOMED CT: ^999000011000000103",
      "dm+d: 123456", "Local procedure codes", "", "  ",
      "SNOMED CT: 123456", "SNOMED CT: 123456, 234567",
      "SNOMED CT:- <<123456 |A (b)| or < 234567",
      "SNOMED CT 123456 only", "SNOMED CT: 123456 |Disorder| only",
      "SNOMED CT: 123456 |Foot (body)| self",
      "SNOMED CT: x\nSNOMED CT <<123456 |T (t)|", "SNOMED CT: x\nSNOMED CT <123456",
      "SNOMED CT: x\nSNOMED CT >>123456", "SNOMED CT: x\nSNOMED CT >123456",
      "SNOMED CT: x\nSNOMED CT ^123456 |R|",
      "http://snomed.info/sct?fhir_vs=ecl/%3C%3C123456",
      "http://snomed.info/sct?fhir_vs=ecl/%",
      "http://snomed.info/sct?fhir_vs=ecl/<123456 or <234567",
      "http://snomed.info/sct?fhir_vs=refset/123456",
      "SNOMED: 123456 , 234567", "SNOMED: 12345",
      "^123456", "<<123456 |T (x)|", ">123456", "123456", "123456, 234567",
      "code 1234567", "SCT <123456", "SNOMEDCT: <<123456 and >234567",
      "snomed-ct(uk): <123456", "SNOMED CT(UK) :- <123456 MINUS <234567",
      "SNOMED CT: dm+d: 123456", "12345", "1234567890123456789",
      "SNOMED CT: 1234567890123456789", "x dm+d:1", "SNOMED CTK 123456",
      "123456 snomed.info/sct?fhir_vs=ecl/%20",
      "  SNOMED CT: 123456 only  ", "dm+d: 123456 ^234567",
      "SNOMED CT: 123456 or 234567", "SNOMED CT: 12345 and < x", "SNOMED CT: 123456\tMINUS\tx",
      "SNOMED CT: ^ x 123456", "SNOMED CT: ^ refset x 123456", "SNOMED CT: 123456 nor 234567 x",
      "SNOMED CT: 1234567 bandaged", "SNOMED CT: 123456 standard", "SNOMED CT: 123456 Or",
      "SNOMED CT: <12345 |Foot| only y" }
    \cup {d.text : d \in ListDescriptors}
    \cup {d.text : d \in ConceptDescriptors}
    \cup {d.text : d \in FhirDescriptors}
    \cup {d.text : d \in DmdDescriptors}

\* the value of block once the function has returned
HasReturned == Len(RecognizerOrder) + 1

InitExtract ==
    /\ descriptor \in Descriptors
    /\ block = 0
    /\ evaluated = <<>>
    /\ returned = Returned("")
    /\ conversionConfig = DefaultConfig
    /\ elements = <<>>
    /\ today \in Dates
    /\ ScriptAtRest
    /\ canon = <<>>

\* if (!valueSetString || trimString(valueSetString) === "") return "";
EntryGuard ==
    /\ block = 0
    /\ block' = IF ~Truthy(descriptor) \/ trimString(descriptor) = "" THEN HasReturned ELSE 1
    /\ UNCHANGED <<scriptVars, descriptor, evaluated, returned, canon, tagCalls>>

\* one pattern block; the final return "" follows the last one
BlockDone(r) ==
    /\ evaluated' = Append(evaluated, RecognizerOrder[block])
    /\ returned' = r.out
    /\ block' = IF r.hit THEN HasReturned ELSE block + 1

RecognizerBlock ==
    /\ block \in 1..Len(RecognizerOrder)
    /\ BlockDone(Recognize(RecognizerOrder[block], trimString(descriptor)))
    /\ UNCHANGED <<scriptVars, descriptor, canon, tagCalls>>

NextExtract ==
    \/ EntryGuard
    \/ RecognizerBlock

ExtractSpec == InitExtract /\ [][NextExtract]_vars

(***************************************************************************)
(* cleanAndStandardizeEcl applied again to its own result                  *)
(***************************************************************************)
CanonTokens == <<"<", "^", "or", " ", " or or ", "|a (b)", " (c)|", "12">>

RECURSIVE TokenTexts(_)
TokenTexts(n) ==
    IF n = 0 THEN {""}
    ELSE LET shorter == TokenTexts(n - 1)
         IN shorter \cup {t \o CanonTokens[k] : t \in shorter, k \in 1..Len(CanonTokens)}

InitCanon ==
    /\ \E x \in TokenTexts(MaxCanonTokens) : canon = <<x>>
    /\ conversionConfig = DefaultConfig
    /\ elements = <<>>
    /\ today \in Dates
    /\ ScriptAtRest
    /\ NoExtractCall

Canonicalize ==
    /\ Len(canon) \in 1..2
    /\ canon' = Append(canon, cleanAndStandardizeEcl(canon[Len(canon)]))
    /\ UNCHANGED <<scriptVars, extractVars, tagCalls>>

CanonSpec == InitCanon /\ [][Canonicalize]_vars

(***************************************************************************)
(* addOrUpdateTaggedValue, then getTaggedValue of the same name            *)
(***************************************************************************)
MaxTagCalls == 2

\* on the first element of the repository, at most MaxTagCalls times:
\* addOrUpdateTaggedValue(element, tagName, tagValue) with a value that is
\* empty, short, the memo marker, of MemoThreshold characters or one more, and
\* getTaggedValue(element, tagName) when the write has not thrown
TagSpec ==
    /\ InitMalformed
    /\ [][/\ elements # <<>>
          /\ Len(tagCalls) < MaxTagCalls
          /\ \E tagName \in {"snomedECL", "eclSource"},
                tagValue \in {"", "x", MemoMarker,
                              Flatten([k \in 1..MemoThreshold |-> "a"], 1, MemoThreshold),
                              Flatten([k \in 1..(MemoThreshold + 1) |-> "a"], 1,
                                      MemoThreshold + 1)} :
               \E written \in {addOrUpdateTaggedValue(elements[1], tagName, tagValue)} :
                  /\ elements' = [elements EXCEPT ![1] = written.element]
                  /\ tagCalls' = Append(tagCalls,
                                        [tagName |-> tagName, tagValue |-> tagValue,
                                         thrown |-> written.thrown,
                                         got |-> IF written.thrown THEN ""
                                                 ELSE getTaggedValue(written.element, tagName)])
          /\ UNCHANGED <<conversionConfig, conversionCounter, today, pc, allDataElements,
                         loopIndex, runs, lastElement, lastCalls, extractVars, canon>>]_vars

(***************************************************************************)
(* Properties                                                              *)
(***************************************************************************)
\* a step that is one call of convertSingleDataElement
ConvertStep ==
    /\ lastElement' # 0
    /\ \/ pc = "single" /\ pc' = "summary"
       \/ pc \in {"standard", "model"} /\ loopIndex' = loopIndex + 1

\* the element of that call, as the call found it and as it left it
Before == elements[lastElement']
After == elements'[lastElement']

Delta(field) == conversionCounter'[field] - conversionCounter[field]

\* the counters in fields go up by one and no other counter moves
OnlyBumps(fields) ==
    \A f \in DOMAIN ZeroCounter : Delta(f) = IF f \in fields THEN 1 ELSE 0

Made(calls) == {calls[k] : k \in 1..Len(calls)}

NothingWritten ==
    /\ elements' = elements
    /\ Made(lastCalls') \cap {"set snomedECL", "set eclSource", "set eclConversionDate"} = {}

\* reaching the tagged value tagName of the element runs into an unreadable one
TagFaults(element, tagName) ==
    LET k == FirstTagIndex(element.TaggedValues, tagName)
    IN k # 0 /\ element.TaggedValues[k].unreadable

\* C1: an element whose valueSets is the example of the script header and that
\* has no snomedECL gets snomedECL = "< 71388002 |Procedure|", without a dash.
C1_HeaderExample ==
    [][ConvertStep /\ getTaggedValue(Before, "snomedECL") = ""
         /\ getTaggedValue(Before, "valueSets") = HeaderExampleValueSet
       => getTaggedValue(After, "snomedECL") = "< 71388002 |Procedure|"]_vars

\* the order of the recognizers in the specification, section 4.2
Spec42Order ==
    <<"complexEcl", "altPrefix", "dmd", "refset", "exact",
      "descendantsInclusive", "descendantsExclusive",
      "ancestorsInclusive", "ancestorsExclusive",
      "fhirEcl", "fhirRefset", "simpleConcept", "multipleConcept",
      "standaloneRefset", "standaloneConcept">>

Applicable(valueSet) ==
    {k \in 1..Len(Spec42Order) : Recognize(Spec42Order[k], valueSet).hit}

\* C2: extractSnomedEclFromValueSet returns the output of the earliest recognizer
\* of the list of section 4.2 that applies to the trimmed input, and evaluates no
\* recognizer after that one; when none applies it has evaluated all and returns "".
C2_FirstApplicableWins ==
    block = HasReturned /\ trimString(descriptor) # "" =>
        LET valueSet == trimString(descriptor)
            applicable == Applicable(valueSet)
            first == CHOOSE k \in applicable : \A j \in applicable : k <= j
        IN IF applicable = {}
           THEN returned = Returned("") /\ evaluated = Spec42Order
           ELSE /\ returned = Recognize(Spec42Order[first], valueSet).out
                /\ evaluated = SubSeq(Spec42Order, 1, first)

\* two recognizers apply and differ: the earlier one (simple concept) has won
C2_Witness ==
    /\ descriptor = "SNOMED CT: 123456, 234567"
    /\ block = HasReturned
    /\ returned = Returned("< 123456 |SNOMED CT concept|")
    /\ Recognize("multipleConcept", descriptor).out
         = Returned("< 123456 |SNOMED CT concept| OR < 234567 |SNOMED CT concept|")

\* C3: cleanAndStandardizeEcl is idempotent: applied to its own result it
\* returns that result unchanged, for every text.
C3_Idempotent == Len(canon) = 3 => canon[3] = canon[2]

\* C4: with skipExistingEcl set and a snomedECL that is non-empty after trimming,
\* convertSingleDataElement does not call extractSnomedEclFromValueSet, writes
\* nothing, and counts the element as existingEclSkipped only (besides
\* elementsProcessed).
C4_ExistingEclSkipped ==
    [][ConvertStep /\ conversionConfig.skipExistingEcl
         /\ trimString(getTaggedValue(Before, "snomedECL")) # ""
       => /\ "extract" \notin Made(lastCalls')
          /\ NothingWritten
          /\ Delta("existingEclSkipped") = 1
          /\ Delta("conversionsPerformed") = 0
          /\ Delta("nonSnomedSkipped") = 0
          /\ Delta("errors") = 0]_vars

C4_Witness ==
    /\ conversionConfig.skipExistingEcl
    /\ lastElement # 0
    /\ getTaggedValue(elements[lastElement], "snomedECL") = OldEcl
    /\ getTaggedValue(elements[lastElement], "valueSets") = "dm+d: 123456"
    /\ lastCalls = <<"get snomedECL">>
    /\ conversionCounter.existingEclSkipped = 1

\* C5 as stated: in a second run with skipExistingEcl set, an element that has
\* snomedECL is not written to and, of all the counters, only existingEclSkipped
\* goes up.
C5_OnlyExistingSkippedMoves ==
    [][ConvertStep /\ runs = 2 /\ conversionConfig.skipExistingEcl
         /\ trimString(getTaggedValue(Before, "snomedECL")) # ""
       => NothingWritten /\ OnlyBumps({"existingEclSkipped"})]_vars

\* C5, amended: in a second run with skipExistingEcl set, an element that has
\* snomedECL is not written to, and the counters that go up are
\* existingEclSkipped and elementsProcessed, by one each, and no other.
C5_SecondRunSkips ==
    [][ConvertStep /\ runs = 2 /\ conversionConfig.skipExistingEcl
         /\ trimString(getTaggedValue(Before, "snomedECL")) # ""
       => NothingWritten /\ OnlyBumps({"existingEclSkipped", "elementsProcessed"})]_vars

\* the second run skips an element that an earlier run converted
C5_Witness ==
    /\ runs = 2
    /\ conversionConfig.skipExistingEcl
    /\ lastElement # 0
    /\ lastCalls = <<"get snomedECL">>
    /\ getTaggedValue(elements[lastElement], "eclSource") = "Converted from valueSets"
    /\ getTaggedValue(elements[lastElement], "snomedECL") # ""
    /\ conversionCounter.existingEclSkipped >= 1

\* the text of the two dates of Dates
DateText ==
    IF today = [year |-> 2024, month |-> 12, day |-> 19] THEN "2024-12-19" ELSE "2025-03-07"

NotSkipped ==
    ~(conversionConfig.skipExistingEcl /\ trimString(getTaggedValue(Before, "snomedECL")) # "")

\* what extractSnomedEclFromValueSet makes of the valueSets of the element
Extracted == ExtractKnown(getTaggedValue(Before, "valueSets"))

\* C6: when the element is not skipped and extraction returns a non-empty r,
\* the element ends with snomedECL = r, eclSource = "Converted from valueSets"
\* and eclConversionDate = the current date, and it is counted as
\* conversionsPerformed only (besides elementsProcessed).
C6_ConversionRecorded ==
    [][ConvertStep /\ NotSkipped /\ ~Extracted.thrown /\ trimString(Extracted.val) # ""
       => /\ getTaggedValue(After, "snomedECL") = Extracted.val
          /\ getTaggedValue(After, "eclSource") = "Converted from valueSets"
          /\ getTaggedValue(After, "eclConversionDate") = DateText
          /\ OnlyBumps({"conversionsPerformed", "elementsProcessed"})]_vars

\* an element that had other metadata has been converted
C6_Witness ==
    /\ lastElement # 0
    /\ ~conversionConfig.skipExistingEcl
    /\ getTaggedValue(elements[lastElement], "valueSets") = "dm+d: 123456"
    /\ getTaggedValue(elements[lastElement], "snomedECL") = "< 123456 |dm+d concept|"
    /\ getTaggedValue(elements[lastElement], "eclSource") = "Converted from valueSets"
    /\ getTaggedValue(elements[lastElement], "eclConversionDate") = "2025-03-07"
    /\ conversionCounter.conversionsPerformed = 1

\* C7: when the element is not skipped and no recognizer matches, nothing is
\* written, also when skipExistingEcl is off and a snomedECL exists, and the
\* element is counted as nonSnomedSkipped only (besides elementsProcessed).
C7_NoResultWritesNothing ==
    [][ConvertStep /\ NotSkipped /\ Extracted = Returned("")
       => NothingWritten /\ OnlyBumps({"nonSnomedSkipped", "elementsProcessed"})]_vars

\* skipExistingEcl off, an existing snomedECL, no recognizer matched: it is kept
C7_Witness ==
    /\ ~conversionConfig.skipExistingEcl
    /\ lastElement # 0
    /\ getTaggedValue(elements[lastElement], "valueSets") = "Local procedure codes"
    /\ getTaggedValue(elements[lastElement], "snomedECL") = OldEcl
    /\ lastCalls = <<"get snomedECL", "get valueSets", "extract">>
    /\ conversionCounter.nonSnomedSkipped = 1

\* C8: a batch over n elements processes all of them whatever faults occur on
\* the way: the loop ends with elementsProcessed = n.
C8_BatchCompletes ==
    (pc \in {"standard", "model"})
        ~> (pc = "summary" /\ conversionCounter.elementsProcessed = Len(allDataElements))

\* the first element of a batch faulted (URIError) and the second was handled
C8_Witness ==
    /\ pc = "summary"
    /\ Len(allDataElements) = 2
    /\ getTaggedValue(elements[1], "valueSets") = "http://snomed.info/sct?fhir_vs=ecl/%3C%20123456%"
    /\ conversionCounter.errors >= 1
    /\ lastElement = 2
    /\ conversionCounter.elementsProcessed = 2

ReadFaults ==
    \E name \in {"snomedECL", "valueSets"} :
        ("get " \o name) \in Made(lastCalls') /\ TagFaults(Before, name)
ExtractFaults == "extract" \in Made(lastCalls') /\ Extracted.thrown
WriteFaults ==
    \E name \in {"snomedECL", "eclSource", "eclConversionDate"} :
        ("set " \o name) \in Made(lastCalls') /\ TagFaults(Before, name)

C10_BlankLikeNoMatch ==
    [][ConvertStep /\ NotSkipped
         /\ \/ trimString(getTaggedValue(Before, "valueSets")) = ""
            \/ getTaggedValue(Before, "valueSets") = "Local procedure codes"
       => NothingWritten /\ OnlyBumps({"nonSnomedSkipped", "elementsProcessed"})]_vars

\* an element without a valueSets tagged value has been skipped
C10_Witness ==
    /\ lastElement # 0
    /\ FirstTagIndex(elements[lastElement].TaggedValues, "valueSets") = 0
    /\ lastCalls = <<"get snomedECL", "get valueSets">>
    /\ conversionCounter.nonSnomedSkipped = 1
    /\ conversionCounter.errors = 0

(***************************************************************************)
(* Properties of extractSnomedEclFromValueSet on the descriptor families   *)
(***************************************************************************)
\* the function has returned (or thrown) on the descriptor d.text
ReturnedOn(d) == block = HasReturned /\ descriptor = d.text

\* "< id |SNOMED CT concept|" for each id, joined by " OR "
AllListed(ids) ==
    Join([k \in 1..Len(ids) |-> "< " \o ids[k] \o " |SNOMED CT concept|"], " OR ")

\* C11: for a SNOMED label, a colon and a list of k >= 1 concept ids separated
\* by commas or spaces, the result is "< id |SNOMED CT concept|" for every id of
\* the list, in input order, joined by " OR ".
C11_EveryListedIdKept ==
    \A d \in ListDescriptors : ReturnedOn(d) => returned = Returned(AllListed(d.ids))

\* the id of d is a concept id: 6 to 18 digits
HasConceptId(d) == Len(d.id) >= 6 /\ Len(d.id) <= 18

\* the term of d as the result shows it: its own, or the default
ShownTerm(d, default) == IF d.term.clean = "" THEN default ELSE d.term.clean

\* C12: for a descriptor without a label that is an optional operator <, <<, >
\* or >>, a concept id and an optional term, the result carries the operator of
\* the descriptor, or "<" when it has none, and the term or "SNOMED CT concept";
\* a descriptor that is nothing but a number gives the empty result.
C12_StandaloneKeepsOperator ==
    \A d \in ConceptDescriptors :
        ReturnedOn(d) /\ d.label = "" /\ d.op # "^" /\ d.marker = "" /\ HasConceptId(d)
        => returned = Returned(IF d.op = "" /\ d.term.written = "" THEN ""
                               ELSE (IF d.op = "" THEN "<" ELSE d.op) \o " " \o d.id \o " |"
                                    \o ShownTerm(d, "SNOMED CT concept") \o "|")

\* the descriptor carries a SNOMED label
Labelled(d) == d.label \in {"SNOMED CT: ", "SNOMED CT "}

\* C13: for a SNOMED label, with or without a colon, then one operator <<, <, >>
\* or >, a concept id and an optional term, the result is the operator, a space,
\* the id and the term without its semantic tag, or "SNOMED CT concept" when the
\* descriptor has no term.
C13_LabelledOperatorForm ==
    \A d \in ConceptDescriptors :
        ReturnedOn(d) /\ Labelled(d) /\ d.op \in {"<<", "<", ">>", ">"} /\ HasConceptId(d)
        => returned = Returned(d.op \o " " \o d.id \o " |"
                               \o ShownTerm(d, "SNOMED CT concept") \o "|")

\* C14: for a SNOMED label, then ^, a reference set id and an optional term, the
\* result is "^ id |term|" with the term of the descriptor, or "SNOMED CT
\* reference set" when it has none.
C14_LabelledRefsetForm ==
    \A d \in ConceptDescriptors :
        ReturnedOn(d) /\ Labelled(d) /\ d.op = "^" /\ HasConceptId(d)
            /\ d.term.written \in {"", " |" \o d.term.clean \o "|"}
        => returned = Returned("^ " \o d.id \o " |"
                               \o ShownTerm(d, "SNOMED CT reference set") \o "|")

\* str holds a run of six digits
HasSixDigits(str) ==
    \E k \in 1..(Len(str) - 5) : \A j \in 0..5 : Ch(str, k + j) \in Digits

\* C15: a token of 5 or of 19 digits is not taken for an identifier: when the
\* only number of the descriptor is such a token, the result holds no
\* identifier.
C15_OnlySixToEighteenDigits ==
    \A d \in ConceptDescriptors :
        ReturnedOn(d) /\ ~HasConceptId(d) => ~returned.thrown /\ ~HasSixDigits(returned.val)

\* C19: for a SNOMED label, a concept id, an optional term and then "(exact)",
\* "only" or "self", the result is the id and the term without its semantic tag,
\* or "SNOMED CT concept", with no operator and without the marker word,
\* whatever letters the term holds.
C19_ExactForm ==
    \A d \in ConceptDescriptors :
        ReturnedOn(d) /\ Labelled(d) /\ d.marker # "" /\ HasConceptId(d)
        => returned = Returned(d.id \o " |" \o ShownTerm(d, "SNOMED CT concept") \o "|")

\* str names SNOMED CT in some way: a SNOMED or SCT label, a dm+d marker, an
\* ECL operator or caret, a snomed.info URL, or a term between pipes
ReferencesSnomed(str) ==
    \E mark \in {"SNOMED", "SCT", "dm+d", "<", ">", "^", "snomed.info", "|"} :
        \E k \in 1..Len(str) : LitAt(mark, TRUE, str, k)

\* C16: a descriptor that does not reference SNOMED CT at all gives the empty
\* result, whatever other text or numbers it holds.
C16_UnrelatedLeftUnconverted ==
    block = HasReturned /\ ~ReferencesSnomed(descriptor) => returned = Returned("")

\* C17: extractSnomedEclFromValueSet never raises an exception, whatever the
\* descriptor.
C17_NeverThrows == ~returned.thrown

\* C18: for a FHIR value set URL .../sct?fhir_vs=ecl/<expr> the result is
\* cleanAndStandardizeEcl of the decoded expression, whether the expression is
\* percent-encoded or written with literal operators and keywords.
C18_FhirUrlDecoded ==
    \A d \in FhirDescriptors :
        ReturnedOn(d) => returned = Returned(cleanAndStandardizeEcl(d.decoded))

\* C20: for a descriptor with "dm+d:", optional white space and a run of digits,
\* which the complex and alternate-prefix recognizers do not accept, the result
\* is "< d |dm+d concept|", d being the digits of the first such occurrence.
C20_DmdForm ==
    \A d \in DmdDescriptors :
        ReturnedOn(d) /\ "dmd" \in Made(evaluated)
        => returned = Returned("< " \o d.digits \o " |dm+d concept|")

\* a dm+d code after a marker that has no digits, and before another code
C20_Witness ==
    /\ descriptor = "Drug dm+d: x DM+D: 123456, dm+d: 999"
    /\ block = HasReturned
    /\ evaluated = <<"complexEcl", "altPrefix", "dmd">>
    /\ returned = Returned("< 123456 |dm+d concept|")

C22_FlagsIdle ==
    [][ConvertStep =>
         \A cf \in Configs :
            cf.skipExistingEcl = conversionConfig.skipExistingEcl =>
               /\ After = convertSingleDataElement(Before, cf, today).element
               /\ \A f \in DOMAIN ZeroCounter :
                    Delta(f) = convertSingleDataElement(Before, cf, today).counter[f]]_vars

\* a quiet run that logs non-SNOMED elements has converted one element and
\* skipped another for want of a SNOMED expression
C22_Witness ==
    /\ pc = "summary"
    /\ ~conversionConfig.debugMode
    /\ conversionConfig.logNonSnomedElements
    /\ conversionCounter.conversionsPerformed = 1
    /\ conversionCounter.nonSnomedSkipped = 1

\* the descriptor is "SNOMED CT: " and one line of text: complexEclPattern
\* captures that text and the first block hands it, trimmed, to
\* isValidEclExpression
GateLabel == "SNOMED CT: "
Gated ==
    /\ Len(trimString(descriptor)) > Len(GateLabel)
    /\ SubSeq(trimString(descriptor), 1, Len(GateLabel)) = GateLabel
    /\ \A k \in 1..Len(descriptor) : Ch(descriptor, k) # "\n"
GatedText ==
    trimString(SubSeq(trimString(descriptor), Len(GateLabel) + 1, Len(trimString(descriptor))))

\* the first block has been evaluated; it returned, which it does when
\* isValidEclExpression is true
GateApplied == Gated /\ Len(evaluated) >= 1
GateAccepted == Len(evaluated) = 1 /\ block = HasReturned

HasOperatorOrKeyword(str) ==
    \E w \in {"<", ">", "^", "and", "or", "minus"} :
        \E k \in 1..Len(str) : LitAt(w, TRUE, str, k)

\* a whitespace character, or/and/minus in either case, a whitespace character
HasLogicalJoin(str) ==
    \E w \in {"or", "and", "minus"} :
        \E k \in 1..(Len(str) - Len(w) - 1) :
            /\ Ch(str, k) \in WhiteSpace
            /\ LitAt(w, TRUE, str, k + 1)
            /\ Ch(str, k + Len(w) + 1) \in WhiteSpace

\* an operator character, then a digit with nothing but whitespace between
HasOperatorBeforeDigit(str) ==
    \E k \in 1..Len(str) :
        /\ Ch(str, k) \in {"<", ">", "^"}
        /\ \E j \in (k + 1)..Len(str) :
              /\ Ch(str, j) \in Digits
              /\ \A i \in (k + 1)..(j - 1) : Ch(str, i) \in WhiteSpace

EndsOperatorAt(str, k) ==
    /\ Ch(str, k) \in {"<", ">", "^"}
    /\ ~(/\ k < Len(str)
         /\ Ch(str, k) \in {"<", ">"}
         /\ Ch(str, k + 1) = Ch(str, k)
         /\ (k = 1 \/ Ch(str, k - 1) # Ch(str, k)))

\* C24: in the result of cleanAndStandardizeEcl no operator <, <<, >, >> or ^
\* has whitespace before it, and every one that is not at the end of the
\* result has exactly one space after it, operators next to each other included.
C24_OperatorSpacing ==
    Len(canon) >= 2 =>
        \A k \in 1..Len(canon[2]) :
            /\ Ch(canon[2], k) \in {"<", ">", "^"} /\ k > 1
                  => Ch(canon[2], k - 1) \notin WhiteSpace
            /\ EndsOperatorAt(canon[2], k) /\ k < Len(canon[2])
                  => /\ Ch(canon[2], k + 1) = " "
                     /\ k + 1 < Len(canon[2]) => Ch(canon[2], k + 2) \notin WhiteSpace

\* the positions of str where a whitespace character, word in either case and
\* a whitespace character stand
DelimitedAt(str, word) ==
    {k \in 1..(Len(str) - Len(word) - 1) :
        /\ Ch(str, k) \in WhiteSpace
        /\ LitAt(word, TRUE, str, k + 1)
        /\ Ch(str, k + Len(word) + 1) \in WhiteSpace}

\* the positions of str where word stands in upper case
UpperCaseAt(str, word) == {k \in 1..Len(str) : LitAt(ToUpper(word), FALSE, str, k)}

\* C25: cleanAndStandardizeEcl uppercases every whitespace-delimited or, and,
\* minus of the trimmed text, two keywords with one space between them
\* included: the result holds the keyword in upper case at least as often as
\* the text holds it between whitespace.
C25_EveryKeywordUppercased ==
    Len(canon) >= 2 =>
        \A word \in {"or", "and", "minus"} :
            Cardinality(DelimitedAt(trimString(canon[1]), word))
                <= Cardinality(UpperCaseAt(canon[2], word))

\* C26: with skipExistingEcl off, an element whose snomedECL is not blank is
\* not skipped: existingEclSkipped stays, extractSnomedEclFromValueSet is
\* called on its valueSets when they are not blank, and when the result r is
\* not blank and no write faults, r replaces the old snomedECL, eclSource and
\* eclConversionDate are set, and conversionsPerformed goes up by one.
C26_ExistingEclOverwritten ==
    [][ConvertStep /\ ~conversionConfig.skipExistingEcl
         /\ trimString(getTaggedValue(Before, "snomedECL")) # ""
       => /\ Delta("existingEclSkipped") = 0
          /\ ~NoValueSets(getTaggedValue(Before, "valueSets"))
                => "extract" \in Made(lastCalls')
          /\ ~Extracted.thrown /\ trimString(Extracted.val) # "" /\ ~WriteFaults
                => /\ getTaggedValue(After, "snomedECL") = Extracted.val
                   /\ getTaggedValue(After, "eclSource") = EclSourceText
                   /\ getTaggedValue(After, "eclConversionDate") = DateText
                   /\ Delta("conversionsPerformed") = 1]_vars

\* the element with the FHIR URL, which came with an older snomedECL, now
\* carries the expression of the URL
C26_Witness ==
    /\ lastElement # 0
    /\ ~conversionConfig.skipExistingEcl
    /\ getTaggedValue(elements[lastElement], "valueSets")
          = "http://snomed.info/sct?fhir_vs=ecl/%3C%3C123456%20or%20%5E234567"
    /\ getTaggedValue(elements[lastElement], "snomedECL") # OldEcl
    /\ getTaggedValue(elements[lastElement], "snomedECL")
          = ExtractKnown(getTaggedValue(elements[lastElement], "valueSets")).val
    /\ getTaggedValue(elements[lastElement], "eclSource") = EclSourceText
    /\ conversionCounter.existingEclSkipped = 0
    /\ conversionCounter.conversionsPerformed >= 1

\* C27: after any sequence of convertSingleDataElement calls, skips, blank
\* valueSets, conversions, non-matches and failed writes in any mix,
\* elementsProcessed = conversionsPerformed + existingEclSkipped +
\* nonSnomedSkipped + errors: every element is counted in exactly one outcome.
C27_CountersConserved ==
    conversionCounter.elementsProcessed
        = conversionCounter.conversionsPerformed + conversionCounter.existingEclSkipped
          + conversionCounter.nonSnomedSkipped + conversionCounter.errors

\* two calls in one run with two different outcomes, one of them a failed write
C27_Witness ==
    /\ conversionCounter.elementsProcessed = 2
    /\ conversionCounter.errors = 1
    /\ "set eclSource" \in Made(lastCalls) \/ "set snomedECL" \in Made(lastCalls)
    /\ conversionCounter.conversionsPerformed + conversionCounter.existingEclSkipped
          + conversionCounter.nonSnomedSkipped = 1

\* the tagged value name of the element reads differently after the call
Rewritten(name) == getTaggedValue(After, name) # getTaggedValue(Before, name)

\* C28: a conversion record is written as a whole or not at all: a call that
\* changes snomedECL leaves eclSource = "Converted from valueSets" and
\* eclConversionDate = the date and is counted in conversionsPerformed; a call
\* in which one of the three writes fails is counted as an error and leaves
\* snomedECL, eclSource and eclConversionDate as they were.
C28_RecordWrittenWhole ==
    [][ConvertStep
       => /\ Rewritten("snomedECL")
                => /\ getTaggedValue(After, "eclSource") = EclSourceText
                   /\ getTaggedValue(After, "eclConversionDate") = DateText
                   /\ Delta("conversionsPerformed") = 1
          /\ WriteFaults
                => /\ Delta("errors") = 1
                   /\ \A name \in {"snomedECL", "eclSource", "eclConversionDate"} :
                         ~Rewritten(name)]_vars

\* the tagged value the latest call wrote, as the element stores it
StoredTag ==
    elements[1].TaggedValues[FirstTagIndex(elements[1].TaggedValues,
                                           tagCalls[Len(tagCalls)].tagName)]

\* the latest write is stored as the code stores it: a value of more than
\* MemoThreshold characters as the marker with the text in Notes, any other
\* value in Value with empty Notes
StoredByLength ==
    tagCalls # <<>> /\ ~tagCalls[Len(tagCalls)].thrown
       => IF Len(tagCalls[Len(tagCalls)].tagValue) > MemoThreshold
          THEN /\ StoredTag.Value = MemoMarker
               /\ StoredTag.Notes = tagCalls[Len(tagCalls)].tagValue
          ELSE /\ StoredTag.Value = tagCalls[Len(tagCalls)].tagValue
               /\ StoredTag.Notes = ""

\* C29, as claimed: getTaggedValue(element, name) after
\* addOrUpdateTaggedValue(element, name, v) returns v, for every v, whether the
\* tag existed or not and whatever it held; long values go to Notes behind the
\* marker and a short value clears the Notes.
C29_RoundTrip ==
    /\ \A k \in 1..Len(tagCalls) : ~tagCalls[k].thrown => tagCalls[k].got = tagCalls[k].tagValue
    /\ StoredByLength

\* C29, as the code has it: when the write does not fail, the read returns v
\* for every v but the marker "<memo>" itself, for which it returns the empty
\* Notes; the storage is as claimed.
C29_RoundTripButMarker ==
    /\ \A k \in 1..Len(tagCalls) :
          ~tagCalls[k].thrown
             => tagCalls[k].got = IF tagCalls[k].tagValue = MemoMarker THEN ""
                                  ELSE tagCalls[k].tagValue
    /\ StoredByLength

\* a value of more than MemoThreshold characters was written and read back,
\* then a short one was written over it and read back
C29_Witness ==
    /\ Len(tagCalls) = 2
    /\ ~tagCalls[1].thrown /\ ~tagCalls[2].thrown
    /\ Len(tagCalls[1].tagValue) > MemoThreshold
    /\ tagCalls[1].got = tagCalls[1].tagValue
    /\ tagCalls[2].tagName = tagCalls[1].tagName
    /\ tagCalls[2].tagValue = "x"
    /\ tagCalls[2].got = "x"
    /\ StoredTag.Notes = ""

====
